---- MODULE Spec2Model ----
(***************************************************************************)
(* CBC+HMAC AEAD of package josecipher (cipher/cbc_hmac.go).               *)
(*                                                                         *)
(* Byte slices are modelled as Go has them: a backing array on a heap plus *)
(* a length; the capacity is the length of the backing array.  Seal and    *)
(* Open run as sequences of steps so that calls can interleave.            *)
(*                                                                         *)
(* The primitives the package imports (cipher.Block, crypto/hmac, the      *)
(* PKCS7 padding) are not part of the package.  The block cipher is a      *)
(* keyed permutation of blocks, the HMAC a keyed digest that depends on    *)
(* every bit of the message and on its length, the padding follows its     *)
(* documented contract.                                                    *)
(***************************************************************************)
EXTENDS Integers, Sequences, FiniteSets, TLC

VARIABLES ctx, made, heap, call, last, begun

vars == <<ctx, made, heap, call, last, begun>>

(***************************************************************************)
(* Program constants and bounds                                            *)
(***************************************************************************)
nonceBytes == 16

\* largest spare capacity (cap - len) a caller's aad slice or dst hint has
MaxSpare == 44

\* calls the callers make on one context
MaxCalls == 2

\* number of concurrent callers
Slots == {1, 2}

(***************************************************************************)
(* Bytes and byte sequences                                                *)
(***************************************************************************)
RECURSIVE Xor(_, _)
Xor(a, b) ==
    IF a = 0 THEN b
    ELSE IF b = 0 THEN a
    ELSE ((a + b) % 2) + 2 * Xor(a \div 2, b \div 2)

XorSeq(x, y) == [i \in 1..Len(x) |-> Xor(x[i], y[i])]

\* a deterministic byte string of length n
Pattern(n, seed) == [i \in 1..n |-> (seed + 7 * i) % 256]

Zeros(n) == [i \in 1..n |-> 0]

Repeat(b, n) == [i \in 1..n |-> b]

\* s with the bytes of t written at positions at+1 .. at+Len(t)
Overwrite(s, at, t) ==
    [i \in 1..Len(s) |-> IF i > at /\ i <= at + Len(t) THEN t[i - at] ELSE s[i]]

\* s with bit b of byte i flipped
FlipBit(s, i, b) ==
    [j \in 1..Len(s) |-> IF j = i THEN Xor(s[j], 2 ^ b) ELSE s[j]]

(***************************************************************************)
(* Imported primitives                                                     *)
(***************************************************************************)
\* cipher.Block.Encrypt: a keyed permutation of one block
BlockEncrypt(key, blk) ==
    LET n == Len(blk) IN
    [i \in 1..n |-> (blk[(i % n) + 1] + key[((i - 1) % Len(key)) + 1] + i) % 256]

\* cipher.Block.Decrypt: the inverse permutation
BlockDecrypt(key, c) ==
    LET n == Len(c) IN
    [j \in 1..n |->
        LET i == IF j = 1 THEN n ELSE j - 1 IN
        (c[i] + 512 - key[((i - 1) % Len(key)) + 1] - i) % 256]

RECURSIVE CBCEncryptBlocks(_, _, _)
\* cbcEncrypter.CryptBlocks: c_i = E(p_i xor c_{i-1}), c_0 = iv
CBCEncryptBlocks(key, prev, data) ==
    IF Len(data) = 0 THEN << >>
    ELSE LET bs == Len(prev)
             c  == BlockEncrypt(key, XorSeq(SubSeq(data, 1, bs), prev))
         IN  c \o CBCEncryptBlocks(key, c, SubSeq(data, bs + 1, Len(data)))

RECURSIVE CBCDecryptBlocks(_, _, _)
\* cbcDecrypter.CryptBlocks: p_i = D(c_i) xor c_{i-1}, c_0 = iv
CBCDecryptBlocks(key, prev, data) ==
    IF Len(data) = 0 THEN << >>
    ELSE LET bs == Len(prev)
             c  == SubSeq(data, 1, bs)
         IN  XorSeq(BlockDecrypt(key, c), prev)
                \o CBCDecryptBlocks(key, c, SubSeq(data, bs + 1, Len(data)))

\* cipher.NewCBCEncrypter / NewCBCDecrypter panic unless len(iv) is the
\* block size; CryptBlocks panics unless the input is whole blocks
CBCPanics(blockSize, iv, n) == Len(iv) # blockSize \/ n % blockSize # 0

RECURSIVE WeightedSum(_, _)
WeightedSum(msg, n) ==
    IF n = 0 THEN 0
    ELSE ((2 * n - 1) * msg[n] + WeightedSum(msg, n - 1)) % 256

\* hmac.New(hash, key); Write(msg); Sum(nil): size bytes that depend on the
\* key, on every bit of msg and on its length
HMACSum(size, key, msg) ==
    LET d == (WeightedSum(msg, Len(msg)) + 3 * Len(msg)) % 256 IN
    [j \in 1..size |-> (d + j * key[((j - 1) % Len(key)) + 1] + j * j) % 256]

\* PKCS7.Pad: appends p bytes of value p, p = blockSize - len mod blockSize
Pad(buf, blockSize) ==
    LET p == blockSize - (Len(buf) % blockSize) IN buf \o Repeat(p, p)

\* PKCS7.Unpad succeeds iff the last byte p is in 1..blockSize, p <= len and
\* the last p bytes all equal p
UnpadOk(buf, blockSize) ==
    /\ Len(buf) > 0
    /\ LET p == buf[Len(buf)] IN
        /\ p >= 1
        /\ p <= blockSize
        /\ p <= Len(buf)
        /\ \A i \in (Len(buf) - p + 1)..Len(buf) : buf[i] = p

\* length of the unpadded prefix
UnpadLen(buf) == Len(buf) - buf[Len(buf)]

(***************************************************************************)
(* Slices and the pure helpers of cbc_hmac.go                              *)
(***************************************************************************)
\* a slice that owns its backing array: arr is the array, len the length,
\* Len(arr) the capacity
NilSlice == [arr |-> << >>, len |-> 0]

SliceBytes(s) == SubSeq(s.arr, 1, s.len)

RECURSIVE BigEndian(_, _)
\* binary.BigEndian: the n low-order bytes of v, most significant first
BigEndian(v, n) ==
    IF n = 0 THEN << >> ELSE BigEndian(v \div 256, n - 1) \o << v % 256 >>

\* bitLen: the bit length of a slice of n bytes as 8 big-endian bytes
bitLen(n) == BigEndian(n * 8, 8)

\* resize: head is in[:n] when cap(in) >= n, else a new array of n bytes
\* holding in's bytes
resize(in, n) ==
    IF Len(in.arr) >= n
    THEN [arr |-> in.arr, len |-> n]
    ELSE [arr |-> SliceBytes(in) \o Zeros(n - in.len), len |-> n]

\* ret of Seal/Open: resize(dst, len(dst)+len(bytes)), then copy(out, bytes)
\* with out = head[len(dst):]
resizeAndCopy(dst, bytes) ==
    LET head == resize(dst, dst.len + Len(bytes)) IN
    [arr |-> Overwrite(head.arr, dst.len, bytes), len |-> head.len]

\* the switch of computeAuthTag: the hash for an integrity key of n bytes
selectHash(n) ==
    CASE n = 16 -> "sha256"
      [] n = 24 -> "sha384"
      [] n = 32 -> "sha512"
      [] OTHER  -> "nil"

\* output size of the selected hash
hashSize(h) ==
    CASE h = "sha256" -> 32
      [] h = "sha384" -> 48
      [] h = "sha512" -> 64
      [] OTHER        -> 0

\* the message computeAuthTag authenticates: aad || nonce || ct || bitLen(aad)
tagMessage(aad, nonce, ciphertext) ==
    aad \o nonce \o ciphertext \o bitLen(Len(aad))

\* faulty variant of tagOfBuffer: the HMAC output is returned whole, not cut
\* to authtagBytes
tagUntruncated(c, buffer) ==
    HMACSum(hashSize(selectHash(Len(c.integrityKey))), c.integrityKey, buffer)

\* hmac.Sum(nil)[:ctx.authtagBytes] over the assembled buffer
tagOfBuffer(c, buffer) ==
    SubSeq(HMACSum(hashSize(selectHash(Len(c.integrityKey))), c.integrityKey, buffer),
           1, c.authtagBytes)

\* computeAuthTag as a function of its arguments
computeAuthTag(c, aad, nonce, ciphertext) ==
    tagOfBuffer(c, tagMessage(aad, nonce, ciphertext))

\* faulty variant of ConstantTimeCompare: only the first byte is compared
CompareFirstByte(x, y) ==
    IF Len(x) = Len(y) /\ (Len(x) = 0 \/ x[1] = y[1]) THEN 1 ELSE 0

\* subtle.ConstantTimeCompare: 1 iff equal length and equal bytes
ConstantTimeCompare(x, y) ==
    IF Len(x) = Len(y) /\ \A i \in 1..Len(x) : x[i] = y[i] THEN 1 ELSE 0

(***************************************************************************)
(* Construction                                                            *)
(***************************************************************************)
NoCtx == [ok |-> FALSE]

\* NewCBCHMAC: splits the key, builds the block cipher from the second half
NewCBCHMAC(key, newBlockCipher) ==
    LET keySize       == Len(key) \div 2
        integrityKey  == SubSeq(key, 1, keySize)
        encryptionKey == SubSeq(key, keySize + 1, Len(key))
    IN  IF Len(encryptionKey) \notin newBlockCipher.keySizes
        THEN [err |-> "InvalidKey", ctx |-> NoCtx]
        ELSE [err |-> "nil",
              ctx |-> [ok            |-> TRUE,
                       encryptionKey |-> encryptionKey,
                       integrityKey  |-> integrityKey,
                       blockSize     |-> newBlockCipher.blockSize,
                       authtagBytes  |-> keySize]]

NonceSize(c) == nonceBytes

Overhead(c) == c.blockSize + c.authtagBytes

(***************************************************************************)
(* Inputs                                                                  *)
(***************************************************************************)
\* block-cipher factories: the key sizes they accept and their block size
\* (aes.NewCipher, des.NewCipher, des.NewTripleDESCipher)
Factories ==
    { [name |-> "aes",  keySizes |-> {16, 24, 32}, blockSize |-> 16],
      [name |-> "des",  keySizes |-> {8},          blockSize |-> 8],
      [name |-> "tdes", keySizes |-> {24},         blockSize |-> 8] }

AESFactory == CHOOSE f \in Factories : f.name = "aes"

KeyLens == {16, 32, 48, 64}

Keys == { Pattern(n, 11) : n \in KeyLens }

Plaintexts == { Pattern(n, 1) : n \in {0, 1, nonceBytes, nonceBytes + 1} }

Aads == { << >>, << 65, 66 >> }

Spares == {0, MaxSpare}

\* dst hints: nil, and a one-byte slice with spare capacity holding stale bytes
DstHints == { NilSlice, [arr |-> << 9 >> \o Pattern(MaxSpare, 2), len |-> 1] }

\* nonces of NonceSize() bytes and of the cipher's block size
NoncesFor(c, seeds) ==
    { Pattern(n, sd) : n \in {NonceSize(c), c.blockSize}, sd \in seeds }

TamperBits == 0..7

\* first, middle and last position of a string of n bytes
Ends(n) == IF n = 0 THEN {} ELSE {1, (n + 1) \div 2, n}

NoLast == [ok |-> FALSE]

\* Open's arguments taken unchanged from the last Seal
FromSealed(l) ==
    { [input |-> l.out, nonce |-> l.nonce, aad |-> l.aad, origin |-> "sealed"] }

\* Open's arguments after one bit of the last Seal's output, aad or nonce
\* was flipped
Tampered(c, l) ==
    LET ctLen == Len(l.out) - c.authtagBytes IN
    { [input |-> FlipBit(l.out, i, b), nonce |-> l.nonce, aad |-> l.aad,
       origin |-> "flip_ct"] : i \in Ends(ctLen), b \in TamperBits }
    \cup
    { [input |-> FlipBit(l.out, i, b), nonce |-> l.nonce, aad |-> l.aad,
       origin |-> "flip_tag"] : i \in {ctLen + 1, Len(l.out)}, b \in TamperBits }
    \cup
    { [input |-> l.out, nonce |-> l.nonce, aad |-> FlipBit(l.aad, i, b),
       origin |-> "flip_aad"] : i \in Ends(Len(l.aad)), b \in TamperBits }
    \cup
    { [input |-> l.out, nonce |-> FlipBit(l.nonce, i, b), aad |-> l.aad,
       origin |-> "flip_nonce"] : i \in Ends(Len(l.nonce)), b \in TamperBits }

\* inputs shorter than the tag, with nonces of any size
Short(c) ==
    { [input |-> Pattern(n, 21), nonce |-> nonce, aad |-> aad, origin |-> "short"] :
        n \in {0, c.authtagBytes - 1},
        nonce \in NoncesFor(c, {3}) \cup { << >> },
        aad \in Aads }

\* ciphertext parts a holder of the key can authenticate: empty, not whole
\* blocks, and one block that decrypts to malformed padding (last byte 0,
\* last byte above the block size, last bytes not all equal)
ForgedCts(c, nonce) ==
    { << >>, << 1 >>, Pattern(c.blockSize + 1, 5) }
    \cup
    { CBCEncryptBlocks(c.encryptionKey, nonce, blk) :
        blk \in { Zeros(c.blockSize),
                  Repeat(c.blockSize + 1, c.blockSize),
                  Pattern(c.blockSize - 1, 40) \o << 2 >> } }

Forged(c) ==
    IF selectHash(Len(c.integrityKey)) = "nil" THEN {}
    ELSE LET nonce == Pattern(c.blockSize, 3)
             aad   == << 65, 66 >>
         IN  { [input |-> ct \o computeAuthTag(c, aad, nonce, ct),
                nonce |-> nonce, aad |-> aad, origin |-> "forged"] :
                 ct \in ForgedCts(c, nonce) }

OpenInputs(c, l) ==
    Short(c) \cup Forged(c)
        \cup (IF l.ok THEN FromSealed(l) \cup Tampered(c, l) ELSE {})

(***************************************************************************)
(* State                                                                   *)
(***************************************************************************)
AadBufs == {"aad1", "aad2"}

InBufs == {"in1", "in2"}

NoResult == [kind |-> "none", err |-> "", ret |-> << >>]

NoBuffer == [shared |-> FALSE, len |-> 0, data |-> << >>]

IdleCall ==
    [op |-> "none", pc |-> "idle", dst |-> NilSlice, nonce |-> << >>,
     aad |-> [buf |-> "aad1", len |-> 0], in |-> [buf |-> "in1", len |-> 0],
     work |-> << >>, buffer |-> NoBuffer, tag |-> << >>, offset |-> 0,
     plainLen |-> 0, matched |-> FALSE, decrypted |-> FALSE,
     origin |-> "", inSnap |-> << >>, aadSnap |-> << >>, res |-> NoResult]

Active(i) == call[i].op # "none"

\* buffers some call in flight still refers to
UsedBufs == { call[j].aad.buf : j \in {k \in Slots : Active(k)} }
            \cup { call[j].in.buf : j \in {k \in Slots : Active(k)} }

FreshAad == CHOOSE b \in AadBufs : b \notin UsedBufs

FreshIn == CHOOSE b \in InBufs : b \notin UsedBufs

\* the bytes a slice into the heap holds
HeapBytes(s) == SubSeq(heap[s.buf], 1, s.len)

Init ==
    /\ ctx = NoCtx
    /\ made = [called |-> FALSE, keySize |-> 0, err |-> ""]
    /\ heap = [b \in AadBufs \cup InBufs |-> << >>]
    /\ call = [i \in Slots |-> IdleCall]
    /\ last = NoLast
    /\ begun = 0

\* the caller constructs the context
Construct ==
    /\ ~made.called
    /\ \E key \in Keys, f \in Factories :
        LET r == NewCBCHMAC(key, f) IN
        /\ ctx' = r.ctx
        /\ made' = [called |-> TRUE, keySize |-> Len(key) \div 2, err |-> r.err]
    /\ UNCHANGED <<heap, call, last, begun>>

(***************************************************************************)
(* Seal and Open as functions of their arguments (one call run alone)      *)
(***************************************************************************)
\* faulty variant of tooShort: only the empty input is rejected
tooShortEmptyOnly(c, n) == n = 0

\* Open, line 96: the input cannot hold a tag
tooShort(c, n) == n < c.authtagBytes

\* faulty variant of afterTag: Open decrypts right after computing the tag
afterTagDecryptFirst(op) == IF op = "Seal" THEN "seal_out" ELSE "open_decrypt"

\* the step that follows computeAuthTag: Seal assembles its output (line
\* 87), Open compares the tags (line 102) before anything else
afterTag(op) == IF op = "Seal" THEN "seal_out" ELSE "open_compare"

Returned(bytes) == [kind |-> "ok", err |-> "", ret |-> bytes]

Failed(e) == [kind |-> "err", err |-> e, ret |-> << >>]

Panicked == [kind |-> "panic", err |-> "", ret |-> << >>]

\* cbcAEAD.Seal
Seal(c, dst, nonce, plaintext, data) ==
    IF CBCPanics(c.blockSize, nonce, 0) THEN Panicked
    ELSE IF selectHash(Len(c.integrityKey)) = "nil" THEN Panicked
    ELSE LET ciphertext == CBCEncryptBlocks(c.encryptionKey, nonce,
                                            Pad(plaintext, c.blockSize))
             authtag    == computeAuthTag(c, data, nonce, ciphertext)
         IN  Returned(SliceBytes(resizeAndCopy(dst, ciphertext \o authtag)))

\* cbcAEAD.Open
Open(c, dst, nonce, ciphertext, data) ==
    IF tooShort(c, Len(ciphertext)) THEN Failed("CiphertextTooShort")
    ELSE IF Len(ciphertext) - c.authtagBytes < 0 THEN Panicked
    ELSE IF selectHash(Len(c.integrityKey)) = "nil" THEN Panicked
    ELSE LET offset      == Len(ciphertext) - c.authtagBytes
             body        == SubSeq(ciphertext, 1, offset)
             expectedTag == computeAuthTag(c, data, nonce, body)
             match       == ConstantTimeCompare(
                                expectedTag,
                                SubSeq(ciphertext, offset + 1, Len(ciphertext)))
         IN  IF match # 1 THEN Failed("AuthenticationFailed")
             ELSE IF CBCPanics(c.blockSize, nonce, offset) THEN Panicked
             ELSE LET buffer == CBCDecryptBlocks(c.encryptionKey, nonce, body) IN
                  IF ~UnpadOk(buffer, c.blockSize) THEN Failed("InvalidPadding")
                  ELSE Returned(SliceBytes(resizeAndCopy(
                           dst, SubSeq(buffer, 1, UnpadLen(buffer)))))

(***************************************************************************)
(* Calls: the caller hands over its slices                                 *)
(***************************************************************************)
\* the aad slice of a new call: a fresh array with or without spare
\* capacity, or the very slice another call in flight was given
AadSlices(i, values, spares) ==
    { [slice |-> [buf |-> FreshAad, len |-> Len(a)], arr |-> a \o Zeros(sp)] :
        a \in values, sp \in spares }
    \cup
    { [slice |-> call[j].aad, arr |-> heap[call[j].aad.buf]] :
        j \in {k \in Slots \ {i} : Active(k)} }

CanBegin(i, conc) ==
    /\ ctx.ok
    /\ ~Active(i)
    /\ begun < MaxCalls
    /\ conc \/ \A j \in Slots \ {i} : ~Active(j)

BeginSeal(i, conc) ==
    /\ CanBegin(i, conc)
    /\ \E pt \in (IF conc THEN {Pattern(1, 1)} ELSE Plaintexts),
          nonce \in (IF conc THEN {Pattern(NonceSize(ctx), sd) : sd \in {3, 5}}
                     ELSE NoncesFor(ctx, {3})),
          dst \in (IF conc THEN {NilSlice} ELSE DstHints),
          a \in AadSlices(i, IF conc THEN {<< 65, 66 >>} ELSE Aads,
                          IF conc THEN {MaxSpare} ELSE Spares) :
        /\ heap' = [heap EXCEPT ![a.slice.buf] = a.arr, ![FreshIn] = pt]
        /\ call' = [call EXCEPT ![i] =
                [IdleCall EXCEPT !.op = "Seal", !.pc = "seal_encrypt",
                                 !.dst = dst, !.nonce = nonce,
                                 !.aad = a.slice,
                                 !.in = [buf |-> FreshIn, len |-> Len(pt)],
                                 !.origin = "plain",
                                 !.inSnap = pt, !.aadSnap = a.arr]]
    /\ begun' = begun + 1
    /\ UNCHANGED <<ctx, made, last>>

\* the input slice of a new Open: a fresh array, or the very slice another
\* Open in flight was given (with that call's nonce)
InSlices(i, conc) ==
    { [slice |-> [buf |-> FreshIn, len |-> Len(v.input)], arr |-> v.input,
       nonce |-> v.nonce, aad |-> v.aad, origin |-> v.origin] :
        v \in (IF conc THEN (IF last.ok THEN FromSealed(last) ELSE {})
               ELSE OpenInputs(ctx, last)) }
    \cup
    { [slice |-> call[j].in, arr |-> heap[call[j].in.buf],
       nonce |-> call[j].nonce,
       aad |-> SubSeq(heap[call[j].aad.buf], 1, call[j].aad.len),
       origin |-> "shared"] :
        j \in {k \in Slots \ {i} : call[k].op = "Open"} }

BeginOpen(i, conc) ==
    /\ CanBegin(i, conc)
    /\ \E v \in InSlices(i, conc),
          dst \in (IF conc THEN {NilSlice} ELSE DstHints) :
       \E a \in AadSlices(i, {v.aad}, IF conc THEN {MaxSpare} ELSE Spares) :
        /\ heap' = [heap EXCEPT ![a.slice.buf] = a.arr, ![v.slice.buf] = v.arr]
        /\ call' = [call EXCEPT ![i] =
                [IdleCall EXCEPT !.op = "Open", !.pc = "open_check",
                                 !.dst = dst, !.nonce = v.nonce,
                                 !.aad = a.slice, !.in = v.slice,
                                 !.origin = v.origin,
                                 !.inSnap = SubSeq(v.arr, 1, v.slice.len),
                                 !.aadSnap = a.arr]]
    /\ begun' = begun + 1
    /\ UNCHANGED <<ctx, made, last>>

(***************************************************************************)
(* Calls: the steps of Seal, computeAuthTag and Open                       *)
(***************************************************************************)
Goto(i, rec) == call' = [call EXCEPT ![i] = rec]

Finish(i, r) == call' = [call EXCEPT ![i] = [@ EXCEPT !.pc = "done", !.res = r]]

\* Seal, lines 74-84: copy the plaintext, pad, CBC-encrypt the copy
SealEncrypt(i) ==
    LET c == call[i] IN
    /\ c.pc = "seal_encrypt"
    /\ IF CBCPanics(ctx.blockSize, c.nonce, 0)
       THEN Finish(i, Panicked)
       ELSE Goto(i, [c EXCEPT !.pc = "tag_nonce",
                              !.work = CBCEncryptBlocks(ctx.encryptionKey, c.nonce,
                                           Pad(HeapBytes(c.in), ctx.blockSize))])
    /\ UNCHANGED <<ctx, made, heap, last, begun>>

\* append(buffer, bytes...): in place while the backing array has room,
\* else into a new array
AppendStep(i, b, bytes, next) ==
    LET c   == call[i]
        arr == heap[c.aad.buf]
    IN  IF b.shared /\ b.len + Len(bytes) <= Len(arr)
        THEN /\ heap' = [heap EXCEPT ![c.aad.buf] = Overwrite(arr, b.len, bytes)]
             /\ Goto(i, [c EXCEPT !.pc = next,
                                  !.buffer = [shared |-> TRUE,
                                              len |-> b.len + Len(bytes),
                                              data |-> << >>]])
        ELSE /\ heap' = heap
             /\ Goto(i, [c EXCEPT !.pc = next,
                                  !.buffer = [shared |-> FALSE,
                                              len |-> b.len + Len(bytes),
                                              data |-> (IF b.shared
                                                        THEN SubSeq(arr, 1, b.len)
                                                        ELSE b.data) \o bytes]])

\* computeAuthTag, lines 126-127: buffer := []byte(aad) is aad itself
TagNonce(i) ==
    LET c == call[i] IN
    /\ c.pc = "tag_nonce"
    /\ AppendStep(i, [shared |-> TRUE, len |-> c.aad.len, data |-> << >>],
                  c.nonce, "tag_ciphertext")
    /\ UNCHANGED <<ctx, made, last, begun>>

\* computeAuthTag, line 128
TagCiphertext(i) ==
    LET c == call[i] IN
    /\ c.pc = "tag_ciphertext"
    /\ AppendStep(i, c.buffer,
                  IF c.op = "Seal" THEN c.work
                  ELSE SubSeq(heap[c.in.buf], 1, c.offset),
                  "tag_bitlen")
    /\ UNCHANGED <<ctx, made, last, begun>>

\* computeAuthTag, line 129
TagBitLen(i) ==
    LET c == call[i] IN
    /\ c.pc = "tag_bitlen"
    /\ AppendStep(i, c.buffer, bitLen(c.aad.len), "tag_hmac")
    /\ UNCHANGED <<ctx, made, last, begun>>

\* computeAuthTag, lines 131-146: hmac.New calls the selected hash (a nil
\* func when no case matched), then digests the buffer
TagHMAC(i) ==
    LET c       == call[i]
        content == IF c.buffer.shared
                   THEN SubSeq(heap[c.aad.buf], 1, c.buffer.len)
                   ELSE c.buffer.data
    IN
    /\ c.pc = "tag_hmac"
    /\ IF selectHash(Len(ctx.integrityKey)) = "nil"
       THEN Finish(i, Panicked)
       ELSE Goto(i, [c EXCEPT !.pc = afterTag(c.op),
                              !.tag = tagOfBuffer(ctx, content)])
    /\ UNCHANGED <<ctx, made, heap, last, begun>>

\* Seal, lines 87-91
SealOut(i) ==
    LET c == call[i] IN
    /\ c.pc = "seal_out"
    /\ Finish(i, Returned(SliceBytes(resizeAndCopy(c.dst, c.work \o c.tag))))
    /\ UNCHANGED <<ctx, made, heap, last, begun>>

\* Open, lines 96-101: the length check, then ciphertext[:offset], which
\* panics for a negative offset
OpenCheck(i) ==
    LET c == call[i] IN
    /\ c.pc = "open_check"
    /\ IF tooShort(ctx, c.in.len)
       THEN Finish(i, Failed("CiphertextTooShort"))
       ELSE IF c.in.len - ctx.authtagBytes < 0
       THEN Finish(i, Panicked)
       ELSE Goto(i, [c EXCEPT !.pc = "tag_nonce",
                              !.offset = c.in.len - ctx.authtagBytes])
    /\ UNCHANGED <<ctx, made, heap, last, begun>>

\* Open, lines 102-105
OpenCompare(i) ==
    LET c == call[i] IN
    /\ c.pc = "open_compare"
    /\ IF ConstantTimeCompare(c.tag, SubSeq(heap[c.in.buf], c.offset + 1, c.in.len)) # 1
       THEN Finish(i, Failed("AuthenticationFailed"))
       ELSE Goto(i, [c EXCEPT !.pc = "open_decrypt", !.matched = TRUE])
    /\ UNCHANGED <<ctx, made, heap, last, begun>>

\* Open, lines 107-109: buffer := []byte(ciphertext[:offset]) is the
\* caller's array; CryptBlocks(buffer, buffer) decrypts it in place
OpenDecrypt(i) ==
    LET c == call[i] IN
    /\ c.pc = "open_decrypt"
    /\ IF CBCPanics(ctx.blockSize, c.nonce, c.offset)
       THEN /\ Finish(i, Panicked)
            /\ heap' = heap
       ELSE /\ heap' = [heap EXCEPT ![c.in.buf] =
                           Overwrite(@, 0, CBCDecryptBlocks(ctx.encryptionKey, c.nonce,
                                                            SubSeq(@, 1, c.offset)))]
            /\ Goto(i, [c EXCEPT !.pc = "open_unpad", !.decrypted = TRUE])
    /\ UNCHANGED <<ctx, made, last, begun>>

\* Open, lines 112-116
OpenUnpad(i) ==
    LET c      == call[i]
        buffer == SubSeq(heap[c.in.buf], 1, c.offset)
    IN
    /\ c.pc = "open_unpad"
    /\ IF ~UnpadOk(buffer, ctx.blockSize)
       THEN Finish(i, Failed("InvalidPadding"))
       ELSE Goto(i, [c EXCEPT !.pc = "open_out", !.plainLen = UnpadLen(buffer)])
    /\ UNCHANGED <<ctx, made, heap, last, begun>>

\* Open, lines 118-121
OpenOut(i) ==
    LET c == call[i] IN
    /\ c.pc = "open_out"
    /\ Finish(i, Returned(SliceBytes(resizeAndCopy(
                     c.dst, SubSeq(heap[c.in.buf], 1, c.plainLen)))))
    /\ UNCHANGED <<ctx, made, heap, last, begun>>

\* the caller takes the result; what a successful Seal added to dst is
\* remembered as the last sealed message
Collect(i) ==
    LET c    == call[i]
        kept == { call[j].aad.buf : j \in {k \in Slots \ {i} : Active(k)} }
                \cup { call[j].in.buf : j \in {k \in Slots \ {i} : Active(k)} }
    IN
    /\ c.pc = "done"
    /\ last' = IF c.op = "Seal" /\ c.res.kind = "ok"
               THEN [ok |-> TRUE,
                     out |-> SubSeq(c.res.ret, c.dst.len + 1, Len(c.res.ret)),
                     nonce |-> c.nonce,
                     plaintext |-> c.inSnap,
                     aad |-> SubSeq(c.aadSnap, 1, c.aad.len)]
               ELSE last
    /\ call' = [call EXCEPT ![i] = IdleCall]
    /\ heap' = [b \in DOMAIN heap |-> IF b \in kept THEN heap[b] ELSE << >>]
    /\ UNCHANGED <<ctx, made, begun>>

(***************************************************************************)
(* Specifications                                                          *)
(***************************************************************************)
\* one caller: calls run one after the other
Next ==
    \/ Construct
    \/ BeginSeal(1, FALSE)
    \/ BeginOpen(1, FALSE)
    \/ SealEncrypt(1)
    \/ TagNonce(1)
    \/ TagCiphertext(1)
    \/ TagBitLen(1)
    \/ TagHMAC(1)
    \/ SealOut(1)
    \/ OpenCheck(1)
    \/ OpenCompare(1)
    \/ OpenDecrypt(1)
    \/ OpenUnpad(1)
    \/ OpenOut(1)
    \/ Collect(1)

Spec == Init /\ [][Next]_vars

\* several callers on one context built from a 32-byte key and AES, after a
\* first message was sealed
ConcCtx == NewCBCHMAC(Pattern(32, 11), AESFactory).ctx

SealedBefore ==
    LET nonce == Pattern(NonceSize(ConcCtx), 3)
        pt    == Pattern(1, 1)
        aad   == << 65, 66 >>
    IN  [ok |-> TRUE, out |-> Seal(ConcCtx, NilSlice, nonce, pt, aad).ret,
         nonce |-> nonce, plaintext |-> pt, aad |-> aad]

InitConc ==
    /\ ctx = ConcCtx
    /\ made = [called |-> TRUE, keySize |-> 16, err |-> "nil"]
    /\ heap = [b \in AadBufs \cup InBufs |-> << >>]
    /\ call = [i \in Slots |-> IdleCall]
    /\ last = SealedBefore
    /\ begun = 0

NextConc ==
    \E i \in Slots :
        \/ BeginSeal(i, TRUE)
        \/ BeginOpen(i, TRUE)
        \/ SealEncrypt(i)
        \/ TagNonce(i)
        \/ TagCiphertext(i)
        \/ TagBitLen(i)
        \/ TagHMAC(i)
        \/ SealOut(i)
        \/ OpenCheck(i)
        \/ OpenCompare(i)
        \/ OpenDecrypt(i)
        \/ OpenUnpad(i)
        \/ OpenOut(i)
        \/ Collect(i)

SpecConc == InitConc /\ [][NextConc]_vars

(***************************************************************************)
(* Properties                                                              *)
(***************************************************************************)
Done(i, op) == call[i].pc = "done" /\ call[i].op = op

AadOf(c) == SubSeq(c.aadSnap, 1, c.aad.len)

SupportedKeySizes == {16, 24, 32}

Flips == {"flip_ct", "flip_tag", "flip_aad", "flip_nonce"}

\* C1: with a context built from a supported combined key and a nonce of
\* NonceSize() bytes, Seal returns, and Open of what Seal returned, with the
\* same nonce and aad, returns exactly the plaintext.
RoundTrip ==
    \A i \in Slots :
        LET c == call[i] IN
        (/\ ctx.ok
         /\ ctx.authtagBytes \in SupportedKeySizes
         /\ Len(c.nonce) = NonceSize(ctx))
        => /\ Done(i, "Seal") => c.res.kind = "ok"
           /\ (Done(i, "Open") /\ c.origin = "sealed")
                => c.res = Returned(SliceBytes(c.dst) \o last.plaintext)

\* the round trip in a context whose cipher has blocks of NonceSize() bytes
RoundTripWhenBlockIsNonceSize ==
    \A i \in Slots :
        LET c == call[i] IN
        (/\ ctx.ok
         /\ ctx.authtagBytes \in SupportedKeySizes
         /\ ctx.blockSize = NonceSize(ctx)
         /\ Len(c.nonce) = NonceSize(ctx))
        => /\ Done(i, "Seal") => c.res.kind = "ok"
           /\ (Done(i, "Open") /\ c.origin = "sealed")
                => c.res = Returned(SliceBytes(c.dst) \o last.plaintext)

\* C2: Open of a sealed message of which one bit of the ciphertext, tag, aad
\* or nonce was flipped returns AuthenticationFailed (or CiphertextTooShort)
\* and no plaintext; the tag a call computes is the truncated HMAC of
\* aad || nonce || ciphertext || 8-byte big-endian bit length of aad.
TamperDetected ==
    \A i \in Slots :
        LET c == call[i] IN
        /\ (Done(i, "Open") /\ c.origin \in Flips)
             => /\ c.res.kind = "err"
                /\ c.res.err \in {"AuthenticationFailed", "CiphertextTooShort"}
                /\ c.res.ret = << >>
        /\ c.pc \in {"seal_out", "open_compare"}
             => c.tag = SubSeq(
                    HMACSum(hashSize(selectHash(Len(ctx.integrityKey))),
                            ctx.integrityKey,
                            AadOf(c) \o c.nonce
                              \o (IF c.op = "Seal" THEN c.work
                                  ELSE SubSeq(c.inSnap, 1, c.offset))
                              \o BigEndian(8 * Len(AadOf(c)), 8)),
                    1, ctx.authtagBytes)

TamperDetectedWitness ==
    \E i \in Slots :
        /\ Done(i, "Open")
        /\ call[i].origin = "flip_nonce"
        /\ call[i].res = Failed("AuthenticationFailed")

\* C3: every call, also when it runs interleaved with another call that was
\* given the same aad or input slice, returns what it returns when run alone.
ConcurrentCallsReturnAsAlone ==
    \A i \in Slots :
        LET c == call[i] IN
        c.pc = "done"
        => c.res = IF c.op = "Seal"
                   THEN Seal(ctx, c.dst, c.nonce, c.inSnap, AadOf(c))
                   ELSE Open(ctx, c.dst, c.nonce, c.inSnap, AadOf(c))

\* C4: construction with a key whose half-length is not 16, 24 or 32 returns
\* an error and no context, whatever the factory.
ConstructionRejectsUnsupportedKey ==
    (made.called /\ made.keySize \notin SupportedKeySizes)
    => made.err # "nil" /\ ~ctx.ok

\* C5: what Seal adds to dst has length len(plaintext) + p + authtagBytes with
\* p = BlockSize - len(plaintext) mod BlockSize in 1..BlockSize, and never
\* more than len(plaintext) + Overhead().
SealLength ==
    \A i \in Slots :
        LET c     == call[i]
            n     == Len(c.inSnap)
            p     == ctx.blockSize - (n % ctx.blockSize)
            added == Len(c.res.ret) - c.dst.len
        IN  (Done(i, "Seal") /\ c.res.kind = "ok")
            => /\ added = n + p + ctx.authtagBytes
               /\ p >= 1
               /\ p <= ctx.blockSize
               /\ added - n <= Overhead(ctx)

SealLengthWitness ==
    \E i \in Slots :
        /\ Done(i, "Seal")
        /\ call[i].res.kind = "ok"
        /\ Len(call[i].inSnap) = ctx.blockSize
        /\ Len(call[i].res.ret) - call[i].dst.len = Len(call[i].inSnap) + Overhead(ctx)

\* C6: Open of an input shorter than authtagBytes returns CiphertextTooShort
\* and no plaintext, whatever the nonce and aad.
TruncationRejected ==
    \A i \in Slots :
        LET c == call[i] IN
        (Done(i, "Open") /\ Len(c.inSnap) < ctx.authtagBytes)
        => c.res = Failed("CiphertextTooShort")

TruncationRejectedWitness ==
    \E i \in Slots :
        /\ Done(i, "Open")
        /\ Len(call[i].inSnap) = ctx.authtagBytes - 1
        /\ call[i].nonce = << >>
        /\ call[i].res = Failed("CiphertextTooShort")

\* C7: Open decrypts only after the recomputed tag equalled the received tag
\* in every byte; an Open that returns AuthenticationFailed has not
\* decrypted and has left its input as it was.
AuthenticateBeforeDecrypt ==
    \A i \in Slots :
        LET c == call[i] IN
        c.op = "Open"
        => /\ c.pc \in {"open_decrypt", "open_unpad", "open_out"} => c.matched
           /\ c.decrypted => c.matched
           /\ c.matched => c.tag = SubSeq(c.inSnap, c.offset + 1, c.in.len)
           /\ (c.pc = "done" /\ c.res = Failed("AuthenticationFailed"))
                => /\ ~c.decrypted
                   /\ HeapBytes(c.in) = c.inSnap

AuthenticateBeforeDecryptWitness ==
    \E i \in Slots :
        /\ call[i].op = "Open"
        /\ call[i].pc = "open_unpad"
        /\ call[i].decrypted
        /\ call[i].matched

\* C8: an Open that fails after the tags matched returns InvalidPadding; it
\* neither panics nor fails otherwise.
FailureAfterTagIsInvalidPadding ==
    \A i \in Slots :
        LET c == call[i] IN
        (Done(i, "Open") /\ c.matched /\ c.res.kind # "ok")
        => c.res = Failed("InvalidPadding")

\* C9: when a call has returned, the caller's plaintext or ciphertext array
\* and the aad's backing array hold what they held when the call began.
CallerInputsUntouched ==
    \A i \in Slots :
        LET c == call[i] IN
        c.pc = "done"
        => /\ heap[c.in.buf] = c.inSnap
           /\ heap[c.aad.buf] = c.aadSnap

\* C10: the NonceSize() of every constructed context is the block size of
\* its block cipher.
NonceSizeIsBlockSize == ctx.ok => NonceSize(ctx) = ctx.blockSize

====
